---- MODULE Spec2Model ----
(***************************************************************************)
(* Model of the hybrid retrieval engine of law_mate:                       *)
(*   services/search/hybrid_search.py   BM25, HybridSearchService          *)
(*   infrastructure/database/vector_store.py   VectorStore                 *)
(*   services/rag/orchestrator.py, app/tasks.py, app/dependencies.py       *)
(*                                                                         *)
(* Text is a sequence of characters.  A character is a short string; the   *)
(* Hangul syllables are written romanised ("ga", "na", "da").              *)
(* Floating point values are kept exact: avg_doc_length is the pair        *)
(* <<sum of lengths, number of documents>> and an IDF value is the pair    *)
(* <<numerator, denominator>> of the argument of the logarithm, doubled.   *)
(***************************************************************************)
EXTENDS Integers, Sequences, FiniteSets, TLC

(***************************************************************************)
(* Bounds of the model                                                     *)
(***************************************************************************)
\* documents the vector store holds at most
MaxStore == 2
\* documents handed to one build_indexes call at most
MaxDocs == 2
\* documents the in-memory index holds at most (guards the source rebuild)
MaxMem == 2
\* times the orchestrator loads its chunks into the store at most
MaxLoads == 2

(***************************************************************************)
(* Characters and the tokenizer (BM25._tokenize)                           *)
(***************************************************************************)
Hangul == {"ga", "na", "da"}
LatinLower == {"a", "b"}
LatinUpper == {"A", "B"}
Digits == {"1"}
Whitespace == {" "}
Punctuation == {",", "."}

\* str.lower() on one character
Lower(c) == IF c = "A" THEN "a" ELSE IF c = "B" THEN "b" ELSE c

\* \w of a Python 3 str pattern: letters of any script, digits, underscore
IsWordChar(c) == c \in Hangul \cup LatinLower \cup LatinUpper \cup Digits \cup {"_"}

\* re.sub(r"[^\w\s가-힣]", " ", text.lower())
CleanText(text) ==
    [i \in 1..Len(text) |->
        LET c == Lower(text[i])
        IN  IF IsWordChar(c) \/ c \in Whitespace \/ c \in Hangul THEN c ELSE " "]

RECURSIVE SplitFrom(_, _, _)
\* str.split(): the maximal runs of non-whitespace characters, in order
SplitFrom(text, i, cur) ==
    IF i > Len(text)
    THEN IF cur = <<>> THEN <<>> ELSE <<cur>>
    ELSE IF text[i] \in Whitespace
         THEN (IF cur = <<>> THEN <<>> ELSE <<cur>>) \o SplitFrom(text, i + 1, <<>>)
         ELSE SplitFrom(text, i + 1, Append(cur, text[i]))

SplitText(text) == SplitFrom(text, 1, <<>>)

\* token[i : i + 2] for i in range(len(token) - 1)
Bigrams(token) == [i \in 1..(Len(token) - 1) |-> SubSeq(token, i, i + 1)]

\* re.match(r"[가-힣]+", token): one or more Hangul syllables at the START
HangulMatch(token) == Len(token) >= 1 /\ token[1] \in Hangul

\* the tokens one whitespace-separated word contributes
ExpandToken(token) ==
    IF Len(token) >= 2
    THEN <<token>> \o (IF HangulMatch(token) /\ Len(token) >= 3
                       THEN Bigrams(token) ELSE <<>>)
    ELSE <<>>

RECURSIVE ExpandAll(_)
ExpandAll(words) ==
    IF words = <<>> THEN <<>>
    ELSE ExpandToken(Head(words)) \o ExpandAll(Tail(words))

Tokenize(text) == ExpandAll(SplitText(CleanText(text)))

\* Counter(tokens): token -> number of occurrences, over the tokens present
Counter(tokens) ==
    [t \in {tokens[i] : i \in 1..Len(tokens)} |->
        Cardinality({i \in 1..Len(tokens) : tokens[i] = t})]

\* "if not query:", the test without strip(): only the empty text is empty
StripIsEmptyNoStrip(text) == text = <<>>

\* query.strip() of search: the text without leading/trailing whitespace is
\* empty exactly when every character is whitespace
StripIsEmpty(text) == \A i \in 1..Len(text) : text[i] \in Whitespace

(***************************************************************************)
(* The documents of the model                                              *)
(***************************************************************************)
EmptyText == <<>>
TextA == <<"ga", "na", "da">>
TextB == <<"ga", "na", " ", "a", "b">>

Sources == {"s1", "s2"}

\* a document as the corpus supplier hands it over
Doc(content, source) == [content |-> content, source |-> source]

\* the documents the store and the callers draw from
DocKinds ==
    { Doc(TextA, "s1"), Doc(TextB, "s2"), Doc(EmptyText, "s1") }

RECURSIVE SeqsUpTo(_, _)
\* all sequences over S of length at most n
SeqsUpTo(S, n) ==
    IF n = 0 THEN {<<>>}
    ELSE LET shorter == SeqsUpTo(S, n - 1)
         IN  shorter \cup {Append(s, x) : s \in shorter, x \in S}

RECURSIVE SumSeq(_)
SumSeq(s) == IF s = <<>> THEN 0 ELSE Head(s) + SumSeq(Tail(s))

(***************************************************************************)
(* State                                                                   *)
(***************************************************************************)
VARIABLES
    \* VectorStore: the ChromaDB collection and the cached count
    collection, document_count,
    \* HybridSearchService
    documents, document_metadata, bm25_index_built,
    \* BM25 (self.bm25); bm25_aliased: bm25.documents and the service's
    \* documents are the same list object
    bm25_documents, bm25_aliased, doc_lengths, term_frequencies,
    document_frequencies, idf_cache, avg_doc_length,
    \* the lifecycle call in flight on the event loop (build_indexes,
    \* rebuild_index, rebuild_index_by_source): position, arguments, outcome
    w_op, w_pc, w_source, w_new, w_result, w_fetch_failed, w_pre,
    \* BM25.fit in the worker thread of each caller: position, loop index,
    \* the list it was handed, and whether that list object still is the
    \* service's documents
    f_pc, f_i, f_docs, f_current,
    \* one search call in flight (search, or _bm25_search on its own, with
    \* BM25.search in its worker thread): the call, its position, query and
    \* top_k, the top_k handed to BM25.search, the document count BM25.search
    \* read, its loop index and scores so far, the two result lists, the
    \* sub-searches invoked, the outcome, and whether the call was issued
    \* while rebuild_index of a Ready index awaited its fit
    s_call, s_pc, s_query, s_top_k, s_lex_k, s_n, s_i, s_scores,
    s_bm25, s_vector, s_invoked, s_out, s_in_rebuild,
    \* RAGOrchestrator: the flag, whether the application is past its startup,
    \* and each call of initialize / rebuild_indexes (startup, admin request,
    \* scheduled job): position and outcome
    is_initialized, serving, o_pc, o_result,
    \* the index as the previous rebuild_index call left it
    r_prev,
    \* the service's documents and their sources as the scoring pass of the
    \* _bm25_search call in flight found them
    s_scored,
    \* the BM25_WEIGHT and VECTOR_WEIGHT the environment supplies to Settings
    \* (in thousandths), whether HybridSearchService was constructed or its
    \* construction raised, and the service's two weights
    env_weights, service, bm25_weight, vector_weight,
    \* a text handed to BM25._tokenize on its own, whether the call returned,
    \* and the tokens it returned
    t_text, t_done, t_tokens

storeVars == <<collection, document_count>>
serviceVars == <<documents, document_metadata, bm25_index_built>>
bm25Vars == <<bm25_documents, bm25_aliased, doc_lengths, term_frequencies,
              document_frequencies, idf_cache, avg_doc_length>>
writerVars == <<w_op, w_pc, w_source, w_new, w_result, w_fetch_failed, w_pre>>
fitVars == <<f_pc, f_i, f_docs, f_current>>
searchVars == <<s_call, s_pc, s_query, s_top_k, s_lex_k, s_n, s_i, s_scores,
                s_bm25, s_vector, s_invoked, s_out, s_in_rebuild>>
orchVars == <<is_initialized, serving, o_pc, o_result>>

\* what the index lifecycle leaves alone
historyVars == <<r_prev, s_scored>>
configVars == <<env_weights, service, bm25_weight, vector_weight>>
tokenVars == <<t_text, t_done, t_tokens>>
clientVars == <<searchVars, orchVars, historyVars, configVars, tokenVars>>

vars == <<storeVars, serviceVars, bm25Vars, writerVars, fitVars, clientVars>>

\* the rebuild requests that may be in flight, and the worker thread each
\* one's BM25.fit runs in (a ThreadPoolExecutor of its own, line 170);
\* thread 1 also serves the lifecycle calls made on the service directly
Threads == {1, 2}

\* the empty mapping (defaultdict(int), {})
EmptyMap == [t \in {} |-> 0]

(***************************************************************************)
(* BM25 statistics                                                         *)
(***************************************************************************)
\* math.log((N - df + 0.5) / (df + 0.5)) is kept as the argument's fraction
\* <<2(N - df) + 1, 2 df + 1>>; 0 (df = 0) is <<1, 1>>, the logarithm of 1
CalculateIdf(df, n) == IF df = 0 THEN <<1, 1>> ELSE <<2 * (n - df) + 1, 2 * df + 1>>

\* math.log of a fraction that is not positive (df > N) is a ValueError
IdfRaises(df, n) == df # 0 /\ 2 * (n - df) + 1 <= 0

\* sum(doc_lengths) / len(doc_lengths) if doc_lengths else 0
AverageLength(lengths) ==
    IF lengths = <<>> THEN <<0, 1>> ELSE <<SumSeq(lengths), Len(lengths)>>

\* document_frequencies after "for term in set(tokens): df[term] += 1"
AddDocumentFrequencies(df, tokens) ==
    LET terms == {tokens[i] : i \in 1..Len(tokens)}
    IN  [t \in (DOMAIN df) \cup terms |->
            (IF t \in DOMAIN df THEN df[t] ELSE 0) + (IF t \in terms THEN 1 ELSE 0)]

\* the value of every field of self.bm25
BM25State ==
    [documents |-> bm25_documents, doc_lengths |-> doc_lengths,
     term_frequencies |-> term_frequencies,
     document_frequencies |-> document_frequencies,
     idf_cache |-> idf_cache, avg_doc_length |-> avg_doc_length]

RECURSIVE TermsOf(_)
\* every token of the documents
TermsOf(docs) ==
    IF docs = <<>> THEN {}
    ELSE LET tokens == Tokenize(Head(docs))
         IN  {tokens[i] : i \in 1..Len(tokens)} \cup TermsOf(Tail(docs))

\* LexicalStats of a document list (spec 3 and 4.2), each figure by its
\* definition: |d|, tf(t, d), df(t), idf(t), avgdl over exactly these documents
StatsOf(docs) ==
    LET n == Len(docs)
        lengths == [i \in 1..n |-> Len(Tokenize(docs[i]))]
        df == [t \in TermsOf(docs) |->
                  Cardinality({i \in 1..n : t \in DOMAIN Counter(Tokenize(docs[i]))})]
    IN  [documents |-> docs,
         doc_lengths |-> lengths,
         term_frequencies |-> [i \in 1..n |-> Counter(Tokenize(docs[i]))],
         document_frequencies |-> df,
         idf_cache |-> [t \in DOMAIN df |-> <<2 * (n - df[t]) + 1, 2 * df[t] + 1>>],
         avg_doc_length |-> IF n = 0 THEN <<0, 1>> ELSE <<SumSeq(lengths), n>>]

\* the index is Ready: built, and its statistics are those of its documents
Ready == bm25_index_built /\ BM25State = StatsOf(documents)

\* what a lifecycle call finds when it starts
IndexState ==
    [documents |-> documents, document_metadata |-> document_metadata,
     bm25_index_built |-> bm25_index_built, ready |-> Ready]

NoIndexState ==
    [documents |-> <<>>, document_metadata |-> <<>>,
     bm25_index_built |-> FALSE, ready |-> FALSE]

(***************************************************************************)
(* VectorStore                                                             *)
(***************************************************************************)
\* batch_size of get_all_documents; 1000 in the source, scaled down so that a
\* store of MaxStore documents spans more than one batch
BatchSize == 1

\* the offsets range(0, document_count, batch_size)
BatchOffsets == {o \in 0..(document_count - 1) : o % BatchSize = 0}

\* collection.get(limit = min(batch_size, document_count - offset), offset)
BatchAt(offset) ==
    LET limit == IF BatchSize < document_count - offset
                 THEN BatchSize ELSE document_count - offset
        last == IF offset + limit < Len(collection) THEN offset + limit ELSE Len(collection)
    IN  SubSeq(collection, offset + 1, last)

RECURSIVE ConcatBatches(_, _)
\* the batches at the offsets from o on, those in failed skipped ("continue")
ConcatBatches(o, failed) ==
    IF o >= document_count THEN <<>>
    ELSE (IF o \in failed THEN <<>> ELSE BatchAt(o)) \o ConcatBatches(o + BatchSize, failed)

\* VectorStore.get_all_documents when the batches at the offsets in failed raise
GetAllDocuments(failed) ==
    IF document_count = 0 THEN <<>> ELSE ConcatBatches(0, failed)

DocHasSource(d, source) == d.source = source

\* VectorStore.get_documents_by_source; a raising collection.get gives []
GetDocumentsBySource(source, fails) ==
    IF fails THEN <<>>
    ELSE SelectSeq(collection, LAMBDA d : DocHasSource(d, source))

\* VectorStore.add_documents with one document
AddDocuments ==
    /\ w_pc = "idle"
    /\ Len(collection) < MaxStore
    /\ \E d \in DocKinds :
        /\ collection' = Append(collection, d)
        /\ document_count' = Len(collection) + 1
    /\ UNCHANGED <<serviceVars, bm25Vars, writerVars, fitVars, clientVars>>

\* VectorStore.delete_documents with the id of one stored document
DeleteDocuments ==
    /\ w_pc = "idle"
    /\ \E i \in 1..Len(collection) :
        /\ collection' = SubSeq(collection, 1, i - 1) \o SubSeq(collection, i + 1, Len(collection))
        /\ document_count' = Len(collection) - 1
    /\ UNCHANGED <<serviceVars, bm25Vars, writerVars, fitVars, clientVars>>

(***************************************************************************)
(* HybridSearchService: index lifecycle                                    *)
(***************************************************************************)
HasContent(d) == d.content # EmptyText

\* the "if content:" loop of build_indexes and _add_documents_to_index
ContentsOf(docs) ==
    LET kept == SelectSeq(docs, HasContent)
    IN  [i \in 1..Len(kept) |-> kept[i].content]

\* the metadata appended for every document, outside the "if content:" test
MetadataOfAll(docs) ==
    [i \in 1..Len(docs) |-> [source |-> docs[i].source, original_doc |-> docs[i]]]

MetadataOf(docs) ==
    LET kept == SelectSeq(docs, HasContent)
    IN  [i \in 1..Len(kept) |-> [source |-> kept[i].source, original_doc |-> kept[i]]]

\* del s[i] when i < len(s) (i counted from 0)
DeleteAt(s, i) ==
    IF i < Len(s) THEN SubSeq(s, 1, i) \o SubSeq(s, i + 2, Len(s)) ELSE s

RECURSIVE DeleteReversed(_, _)
\* for i in reversed(indices): del s[i], guarded by i < len(s)
DeleteReversed(s, indices) ==
    IF indices = {} THEN s
    ELSE LET i == CHOOSE x \in indices : \A y \in indices : y <= x
         IN  DeleteReversed(DeleteAt(s, i), indices \ {i})

\* indices_to_remove of _remove_documents_by_source (counted from 0)
IndicesToRemove(source) ==
    {i \in 0..(Len(document_metadata) - 1) : document_metadata[i + 1].source = source}

\* a lifecycle call starts: remember the call and the index it found
BeginCall(op, source) ==
    /\ w_op' = op
    /\ w_source' = source
    /\ w_pre' = IndexState

\* the call returns to its caller, normally or by raising
EndCall(result) ==
    /\ w_pc' = "done"
    /\ w_result' = result

\* loop.run_in_executor(executor, self.bm25.fit, self.documents), line 171:
\* thread t gets the service's list; the lists other threads hold are not the
\* service's any more when the service made a new one
StartFit(t, list) ==
    /\ f_pc' = [f_pc EXCEPT ![t] = "start"]
    /\ f_i' = [f_i EXCEPT ![t] = 0]
    /\ f_docs' = [f_docs EXCEPT ![t] = list]
    /\ f_current' = [u \in Threads |-> u = t]

\* build_indexes up to its await: the new lists, then BM25.fit handed to the
\* executor with the new list object
StoreAndStartFit(t, docs) ==
    /\ documents' = ContentsOf(docs)
    /\ document_metadata' = MetadataOf(docs)
    /\ bm25_aliased' = FALSE
    /\ StartFit(t, ContentsOf(docs))

\* build_indexes(documents), lines 128-154
BuildIndexesOf(docs) ==
    /\ w_pc = "idle"
    /\ BeginCall("build_indexes", "")
    /\ w_new' = docs
    /\ w_fetch_failed' = FALSE
    /\ IF docs = <<>>
       THEN /\ EndCall("returned")
            /\ UNCHANGED <<serviceVars, bm25_aliased, fitVars>>
       ELSE /\ StoreAndStartFit(1, docs)
            /\ w_pc' = "await_fit"
            /\ w_result' = "none"
            /\ UNCHANGED bm25_index_built
    /\ UNCHANGED <<storeVars, bm25_documents, doc_lengths, term_frequencies,
                   document_frequencies, idf_cache, avg_doc_length, clientVars>>

BuildIndexes == \E docs \in SeqsUpTo(DocKinds, MaxDocs) : BuildIndexesOf(docs)

\* rebuild_index, lines 385-410: clear, fetch, return early or build_indexes
RebuildIndex ==
    /\ w_pc = "idle"
    /\ \E failed \in SUBSET BatchOffsets :
        LET all_documents == GetAllDocuments(failed)
        IN  /\ BeginCall("rebuild_index", "")
            /\ w_new' = <<>>
            /\ w_fetch_failed' = (failed # {})
            /\ bm25_index_built' = FALSE
            /\ IF all_documents = <<>>
               THEN /\ documents' = <<>>
                    /\ document_metadata' = <<>>
                    /\ bm25_aliased' = FALSE
                    /\ EndCall("returned")
                    /\ UNCHANGED fitVars
               ELSE /\ StoreAndStartFit(1, all_documents)
                    /\ w_pc' = "await_fit"
                    /\ w_result' = "none"
    /\ UNCHANGED <<storeVars, bm25_documents, doc_lengths, term_frequencies,
                   document_frequencies, idf_cache, avg_doc_length, clientVars>>

\* rebuild_index_by_source, lines 418-434: fetch, return early or remove the
\* source's documents from both lists in place
RebuildIndexBySourceUpTo(limit) ==
    /\ w_pc = "idle"
    /\ \E source \in Sources, fails \in BOOLEAN :
        LET source_documents == GetDocumentsBySource(source, fails)
            indices == IndicesToRemove(source)
            remaining == DeleteReversed(documents, indices)
        IN  /\ Len(remaining) + Len(source_documents) <= limit
            /\ BeginCall("rebuild_index_by_source", source)
            /\ w_fetch_failed' = fails
            /\ IF source_documents = <<>>
               THEN /\ EndCall("returned")
                    /\ w_new' = <<>>
                    /\ UNCHANGED <<serviceVars, bm25_documents>>
               ELSE /\ documents' = remaining
                    /\ document_metadata' = DeleteReversed(document_metadata, indices)
                    /\ bm25_documents' = IF bm25_aliased THEN remaining ELSE bm25_documents
                    /\ w_new' = source_documents
                    /\ w_pc' = "removed"
                    /\ w_result' = "none"
                    /\ UNCHANGED bm25_index_built
    /\ UNCHANGED <<storeVars, bm25_aliased, doc_lengths, term_frequencies,
                   document_frequencies, idf_cache, avg_doc_length, fitVars, clientVars>>

RebuildIndexBySource == RebuildIndexBySourceUpTo(MaxMem)

\* _add_documents_to_index, lines 468-495: extend both lists in place, then
\* BM25.fit over the whole list, unless the list is empty
AddDocumentsToIndex ==
    /\ w_pc = "removed"
    /\ LET extended == documents \o ContentsOf(w_new)
       IN  /\ documents' = extended
           /\ document_metadata' = document_metadata \o MetadataOf(w_new)
           /\ bm25_documents' = IF bm25_aliased THEN extended ELSE bm25_documents
           /\ IF extended # <<>>
              THEN /\ StartFit(1, extended)
                   /\ w_pc' = "await_fit"
                   /\ UNCHANGED w_result
              ELSE /\ EndCall("returned")
                   /\ UNCHANGED fitVars
    /\ UNCHANGED <<storeVars, bm25_index_built, bm25_aliased, doc_lengths,
                   term_frequencies, document_frequencies, idf_cache,
                   avg_doc_length, w_op, w_source, w_new, w_fetch_failed, w_pre,
                   clientVars>>

(***************************************************************************)
(* BM25.fit in the executor's worker thread, lines 32-58                   *)
(***************************************************************************)
\* lines 34-38: take the caller's list and reset the statistics
FitReset(t) ==
    /\ f_pc[t] = "start"
    /\ bm25_documents' = f_docs[t]
    /\ bm25_aliased' = f_current[t]
    /\ doc_lengths' = <<>>
    /\ term_frequencies' = <<>>
    /\ document_frequencies' = EmptyMap
    /\ idf_cache' = EmptyMap
    /\ f_pc' = [f_pc EXCEPT ![t] = "loop"]
    /\ f_i' = [f_i EXCEPT ![t] = 1]
    /\ UNCHANGED <<avg_doc_length, f_docs, f_current>>

\* lines 41-51: one document of the loop over the list the thread was handed
FitDocument(t) ==
    /\ f_pc[t] = "loop"
    /\ f_i[t] <= Len(f_docs[t])
    /\ LET tokens == Tokenize(f_docs[t][f_i[t]])
       IN  /\ doc_lengths' = Append(doc_lengths, Len(tokens))
           /\ term_frequencies' = Append(term_frequencies, Counter(tokens))
           /\ document_frequencies' = AddDocumentFrequencies(document_frequencies, tokens)
    /\ f_i' = [f_i EXCEPT ![t] = f_i[t] + 1]
    /\ UNCHANGED <<bm25_documents, bm25_aliased, idf_cache, avg_doc_length,
                   f_pc, f_docs, f_current>>

\* line 54
FitAverage(t) ==
    /\ f_pc[t] = "loop"
    /\ f_i[t] > Len(f_docs[t])
    /\ avg_doc_length' = AverageLength(doc_lengths)
    /\ f_pc' = [f_pc EXCEPT ![t] = "idf"]
    /\ UNCHANGED <<bm25_documents, bm25_aliased, doc_lengths, term_frequencies,
                   document_frequencies, idf_cache, f_i, f_docs, f_current>>

\* lines 57-58, with _calculate_idf, lines 79-84; math.log raises ValueError
\* for an argument that is not positive, and the cache stays as it is
FitIdf(t) ==
    /\ f_pc[t] = "idf"
    /\ IF \E term \in DOMAIN document_frequencies :
             IdfRaises(document_frequencies[term], Len(bm25_documents))
       THEN /\ f_pc' = [f_pc EXCEPT ![t] = "raised"]
            /\ UNCHANGED idf_cache
       ELSE /\ idf_cache' = [term \in DOMAIN document_frequencies |->
                               CalculateIdf(document_frequencies[term], Len(bm25_documents))]
            /\ f_pc' = [f_pc EXCEPT ![t] = "done"]
    /\ UNCHANGED <<bm25_documents, bm25_aliased, doc_lengths, term_frequencies,
                   document_frequencies, avg_doc_length, f_i, f_docs, f_current>>

\* the statistics computation raises while it works on a document (the
\* "except Exception" of _build_bm25_index, lines 176-178, is its handler)
FitRaise(t) ==
    /\ f_pc[t] = "loop"
    /\ f_i[t] <= Len(f_docs[t])
    /\ f_pc' = [f_pc EXCEPT ![t] = "raised"]
    /\ UNCHANGED <<bm25Vars, f_i, f_docs, f_current>>

\* the worker thread of the lifecycle call
FitResetStep ==
    FitReset(1) /\ UNCHANGED <<storeVars, serviceVars, writerVars, clientVars>>

FitDocumentStep ==
    FitDocument(1) /\ UNCHANGED <<storeVars, serviceVars, writerVars, clientVars>>

FitAverageStep ==
    FitAverage(1) /\ UNCHANGED <<storeVars, serviceVars, writerVars, clientVars>>

FitIdfStep ==
    FitIdf(1) /\ UNCHANGED <<storeVars, serviceVars, writerVars, clientVars>>

FitRaiseStep ==
    FitRaise(1) /\ UNCHANGED <<storeVars, serviceVars, writerVars, clientVars>>

\* the thread is done with and free again
ReleaseFit(t) ==
    /\ f_pc' = [f_pc EXCEPT ![t] = "idle"]
    /\ f_i' = [f_i EXCEPT ![t] = 0]
    /\ f_docs' = [f_docs EXCEPT ![t] = <<>>]
    /\ f_current' = [f_current EXCEPT ![t] = FALSE]

\* _build_bm25_index after its await, line 173, and the return of the call
FitCompleted ==
    /\ w_pc = "await_fit"
    /\ f_pc[1] = "done"
    /\ bm25_index_built' = TRUE
    /\ EndCall("returned")
    /\ ReleaseFit(1)
    /\ UNCHANGED <<storeVars, documents, document_metadata, bm25Vars,
                   w_op, w_source, w_new, w_fetch_failed, w_pre, clientVars>>

\* the exception of the worker re-raised through _build_bm25_index,
\* build_indexes / _add_documents_to_index and the rebuild (each "raise")
FitFailed ==
    /\ w_pc = "await_fit"
    /\ f_pc[1] = "raised"
    /\ EndCall("raised")
    /\ ReleaseFit(1)
    /\ UNCHANGED <<storeVars, serviceVars, bm25Vars,
                   w_op, w_source, w_new, w_fetch_failed, w_pre, clientVars>>

\* the caller has the outcome; the service is free for the next call
CallReturned ==
    /\ w_pc = "done"
    /\ w_pc' = "idle"
    /\ w_op' = "none"
    /\ w_source' = ""
    /\ w_new' = <<>>
    /\ w_result' = "none"
    /\ w_fetch_failed' = FALSE
    /\ w_pre' = NoIndexState
    /\ UNCHANGED <<storeVars, serviceVars, bm25Vars, fitVars, clientVars>>

(***************************************************************************)
(* BM25 scoring (BM25.search, lines 86-110)                                *)
(***************************************************************************)
\* k1 = 1.5 and b = 0.75 as fractions
K1 == <<3, 2>>
B == <<3, 4>>

\* 1000 * ln(k), rounded, for k = 1 .. 21
LnMilli ==
    <<0, 693, 1099, 1386, 1609, 1792, 1946, 2079, 2197, 2303, 2398,
      2485, 2565, 2639, 2708, 2773, 2833, 2890, 2944, 2996, 3045>>

\* the cached IDF value math.log(p[1] / p[2]), in thousandths
IdfMilli(p) == LnMilli[p[1]] - LnMilli[p[2]]

\* idf * (tf * (k1 + 1)) / (tf + k1 * (1 - b + b * (doc_length / avg))), in
\* ten-thousandths, with avg the fraction <<sum, n>>
TermScore(idf, tf, doc_length, avg) ==
    LET numerator == tf * (K1[1] + K1[2]) * B[2] * avg[1]
        denominator == tf * K1[2] * B[2] * avg[1]
                       + K1[1] * ((B[2] - B[1]) * avg[1] + B[1] * doc_length * avg[2])
    IN  (IdfMilli(idf) * 10 * numerator) \div denominator

RECURSIVE DocScore(_, _, _, _, _)
\* the inner loop over the query tokens for one document; idf_cache.get(term, 0)
DocScore(tokens, doc_length, term_freq, idf, avg) ==
    IF tokens = <<>> THEN 0
    ELSE LET term == Head(tokens)
             rest == DocScore(Tail(tokens), doc_length, term_freq, idf, avg)
         IN  IF term \in DOMAIN term_freq
             THEN TermScore(IF term \in DOMAIN idf THEN idf[term] ELSE <<1, 1>>,
                            term_freq[term], doc_length, avg) + rest
             ELSE rest

\* doc_length / self.avg_doc_length is evaluated for a query term the
\* document holds: ZeroDivisionError when the average is 0
ScoreDivisionByZero(tokens, term_freq, avg) ==
    avg[1] = 0 /\ \E i \in 1..Len(tokens) : tokens[i] \in DOMAIN term_freq

\* sorted(...)[::-1], a sort that is reversed afterwards: descending keys,
\* equal keys in the reverse of the order they had
SortByDescTiesReversed(s, keys) ==
    LET n == Len(s)
        rank(i) == 1 + Cardinality({j \in 1..n : keys[j] > keys[i]
                                                  \/ (keys[j] = keys[i] /\ j > i)})
    IN  [p \in 1..n |-> s[CHOOSE i \in 1..n : rank(i) = p]]

\* list.sort(key) without reverse: ascending keys, equal keys in the order
\* they had
SortByAsc(s, keys) ==
    LET n == Len(s)
        rank(i) == 1 + Cardinality({j \in 1..n : keys[j] < keys[i]
                                                  \/ (keys[j] = keys[i] /\ j < i)})
    IN  [p \in 1..n |-> s[CHOOSE i \in 1..n : rank(i) = p]]

\* list.sort(key, reverse = True): descending keys, equal keys in the order
\* they had (keys[i] is the key of s[i])
SortByDesc(s, keys) ==
    LET n == Len(s)
        rank(i) == 1 + Cardinality({j \in 1..n : keys[j] > keys[i]
                                                  \/ (keys[j] = keys[i] /\ j < i)})
    IN  [p \in 1..n |-> s[CHOOSE i \in 1..n : rank(i) = p]]

\* s[:k + 1], a cut that is off by one
SliceToOneMore(s, k) ==
    LET last == IF k + 1 >= 0 THEN (IF k + 1 < Len(s) THEN k + 1 ELSE Len(s))
                ELSE (IF Len(s) + k + 1 > 0 THEN Len(s) + k + 1 ELSE 0)
    IN  SubSeq(s, 1, last)

\* s[:k]; a negative k counts from the end
SliceTo(s, k) ==
    LET last == IF k >= 0 THEN (IF k < Len(s) THEN k ELSE Len(s))
                ELSE (IF Len(s) + k > 0 THEN Len(s) + k ELSE 0)
    IN  SubSeq(s, 1, last)

\* what BM25.search returns over given statistics: the scores of all the
\* documents, sorted and cut
RankedScores(tokens, stats, top_k) ==
    LET n == Len(stats.documents)
        scores == [i \in 1..n |->
                      [doc_idx |-> i - 1,
                       score |-> DocScore(tokens, stats.doc_lengths[i],
                                          stats.term_frequencies[i],
                                          stats.idf_cache, stats.avg_doc_length)]]
    IN  SliceTo(SortByDesc(scores, [i \in 1..n |-> scores[i].score]), top_k)

(***************************************************************************)
(* HybridSearchService: search, _bm25_search, _vector_search               *)
(***************************************************************************)
\* the queries and the top_k values the callers pass
QueryA == <<"ga", "na">>
QueryB == <<"ga", "na", "da", " ", "a", "b">>
QueryBlank == <<" ">>
QueryEmpty == <<>>
BlankQueries == {QueryBlank, QueryEmpty}
\* a query whose only token is in TextB alone, and one whose token is in no
\* document
QueryC == <<"a", "b">>
QueryNone == <<"b", "b">>
LexicalQueries == {QueryA, QueryB}
Queries == LexicalQueries \cup {QueryC, QueryNone} \cup BlankQueries
TopKs == {-1, 0, 1, 2}

\* the similarity 1 / (1 + distance) of a hit, in thousandths
Similarities == {900, 800}

\* similarity_threshold = 0.7 (SIMILARITY_THRESHOLD)
SimilarityThreshold == 700

\* BM25_WEIGHT = 0.3 and VECTOR_WEIGHT = 0.7, in thousandths
Bm25Weight == 300
VectorWeight == 700

\* hits one vector search returns at most
MaxHits == 2

\* what became of the call: whether the guard of _bm25_search let it through,
\* the exception of the lexical and of the vector sub-search, and the list the
\* caller gets
\* no scoring pass is under way
NoScored == [documents |-> <<>>, sources |-> <<>>]

\* the event loop is not inside the synchronous stretch of
\* rebuild_index_by_source between _remove_documents_by_source and the
\* extend of _add_documents_to_index (lines 434-491), so another coroutine
\* can run
LoopRuns == w_pc # "removed"

NoOutcome ==
    [lexical |-> FALSE, error |-> "none", vector_error |-> "none", results |-> <<>>]

\* the call is issued while rebuild_index, started on a Ready index with
\* documents, awaits its fit
InRebuildOfReadyIndex ==
    /\ w_op = "rebuild_index"
    /\ w_pc = "await_fit"
    /\ w_pre.ready
    /\ w_pre.documents # <<>>

\* the guard of _bm25_search, line 208
LexicalPathOpen == bm25_index_built /\ documents # <<>>

\* _bm25_search(query, top_k) up to its await, lines 205-216
EnterBm25Search(top_k) ==
    /\ s_lex_k' = top_k
    /\ s_n' = 0
    /\ s_i' = 0
    /\ s_scores' = <<>>
    /\ s_bm25' = <<>>
    /\ s_in_rebuild' = InRebuildOfReadyIndex
    /\ IF LexicalPathOpen
       THEN /\ s_pc' = "thread"
            /\ s_out' = [NoOutcome EXCEPT !.lexical = TRUE]
       ELSE /\ s_pc' = "bm25_done"
            /\ s_out' = NoOutcome

\* a caller awaits _bm25_search(query, top_k) on its own
Bm25SearchCall ==
    /\ s_pc = "idle"
    /\ LoopRuns
    /\ \E query \in LexicalQueries, top_k \in TopKs \ {-1, 0} :
        /\ s_call' = "_bm25_search"
        /\ s_query' = query
        /\ s_top_k' = top_k
        /\ EnterBm25Search(top_k)
    /\ s_invoked' = {"bm25"}
    /\ UNCHANGED <<storeVars, serviceVars, bm25Vars, writerVars, fitVars,
                   s_vector, orchVars, historyVars, configVars, tokenVars>>

\* search(query, top_k), lines 180-192: the blank-query return, else both
\* sub-searches with top_k * 2; _bm25_search runs up to its await
SearchCall ==
    /\ s_pc = "idle"
    /\ LoopRuns
    /\ \E query \in Queries, top_k \in TopKs :
        /\ s_call' = "search"
        /\ s_query' = query
        /\ s_top_k' = top_k
        /\ IF StripIsEmpty(query)
           THEN /\ s_pc' = "done"
                /\ s_out' = NoOutcome
                /\ s_invoked' = {}
                /\ UNCHANGED <<s_lex_k, s_n, s_i, s_scores, s_bm25, s_in_rebuild>>
           ELSE /\ EnterBm25Search(top_k * 2)
                /\ s_invoked' = {"bm25", "vector"}
    /\ UNCHANGED <<storeVars, serviceVars, bm25Vars, writerVars, fitVars,
                   s_vector, orchVars, historyVars, configVars, tokenVars>>

\* BM25.search in its worker thread, line 91: len(self.documents), read once
Bm25SearchLenOf ==
    /\ s_pc = "thread"
    /\ s_n' = Len(bm25_documents)
    /\ s_i' = 0
    /\ s_pc' = "score"
    /\ UNCHANGED <<storeVars, serviceVars, bm25Vars, writerVars, fitVars,
                   s_call, s_query, s_top_k, s_lex_k, s_scores, s_bm25, s_vector,
                   s_invoked, s_out, s_in_rebuild, orchVars, r_prev, configVars,
                   tokenVars>>

Bm25SearchLen == Bm25SearchLenOf /\ UNCHANGED s_scored

\* the same step, with the service's lists noted as the scoring pass finds
\* them
Bm25SearchLenScored ==
    /\ Bm25SearchLenOf
    /\ s_scored' = [documents |-> documents,
                    sources |-> [i \in 1..Len(document_metadata) |->
                                    document_metadata[i].source]]

\* lines 92-106: the score of one document from the statistics as they are
\* now; an index past the end of doc_lengths / term_frequencies is an
\* IndexError
Bm25SearchDoc ==
    /\ s_pc = "score"
    /\ s_i < s_n
    /\ LET tokens == Tokenize(s_query)
       IN  IF s_i + 1 > Len(doc_lengths) \/ s_i + 1 > Len(term_frequencies)
           THEN /\ s_pc' = "thread_raised"
                /\ s_out' = [s_out EXCEPT !.error = "IndexError"]
                /\ UNCHANGED <<s_i, s_scores>>
           ELSE IF ScoreDivisionByZero(tokens, term_frequencies[s_i + 1], avg_doc_length)
           THEN /\ s_pc' = "thread_raised"
                /\ s_out' = [s_out EXCEPT !.error = "ZeroDivisionError"]
                /\ UNCHANGED <<s_i, s_scores>>
           ELSE /\ s_scores' = Append(s_scores,
                                  [doc_idx |-> s_i,
                                   score |-> DocScore(tokens, doc_lengths[s_i + 1],
                                                      term_frequencies[s_i + 1],
                                                      idf_cache, avg_doc_length)])
                /\ s_i' = s_i + 1
                /\ UNCHANGED <<s_pc, s_out>>
    /\ UNCHANGED <<storeVars, serviceVars, bm25Vars, writerVars, fitVars,
                   s_call, s_query, s_top_k, s_lex_k, s_n, s_bm25, s_vector,
                   s_invoked, s_in_rebuild, orchVars, historyVars, configVars, tokenVars>>

\* the worker thread raises for a reason of its own (the executor, memory)
Bm25SearchRaise ==
    /\ s_pc = "thread"
    /\ s_pc' = "thread_raised"
    /\ s_out' = [s_out EXCEPT !.error = "Exception"]
    /\ UNCHANGED <<storeVars, serviceVars, bm25Vars, writerVars, fitVars,
                   s_call, s_query, s_top_k, s_lex_k, s_n, s_i, s_scores, s_bm25,
                   s_vector, s_invoked, s_in_rebuild, orchVars, historyVars, configVars, tokenVars>>

\* lines 109-110: sort and cut
Bm25SearchSort ==
    /\ s_pc = "score"
    /\ s_i = s_n
    /\ s_scores' = SliceTo(SortByDesc(s_scores, [i \in 1..Len(s_scores) |-> s_scores[i].score]),
                           s_lex_k)
    /\ s_pc' = "convert"
    /\ UNCHANGED <<storeVars, serviceVars, bm25Vars, writerVars, fitVars,
                   s_call, s_query, s_top_k, s_lex_k, s_n, s_i, s_bm25, s_vector,
                   s_invoked, s_out, s_in_rebuild, orchVars, historyVars, configVars, tokenVars>>

\* the positive scores BM25.search returned
PositiveScores(scores) == SelectSeq(scores, LAMBDA e : e.score > 0)

\* _bm25_search after its await, lines 219-234: the results with a positive
\* score, read from the service's lists as they are now
Bm25SearchConvert ==
    /\ s_pc = "convert"
    /\ LoopRuns
    /\ LET kept == PositiveScores(s_scores)
       IN  IF \E i \in 1..Len(kept) :
                 \/ kept[i].doc_idx + 1 > Len(documents)
                 \/ kept[i].doc_idx + 1 > Len(document_metadata)
           THEN /\ s_bm25' = <<>>
                /\ s_out' = [s_out EXCEPT !.error = "IndexError"]
           ELSE /\ s_bm25' = [i \in 1..Len(kept) |->
                                [content |-> documents[kept[i].doc_idx + 1],
                                 source |-> document_metadata[kept[i].doc_idx + 1].source,
                                 bm25_score |-> kept[i].score,
                                 doc_index |-> kept[i].doc_idx]]
                /\ UNCHANGED s_out
    /\ s_pc' = "bm25_done"
    /\ UNCHANGED <<storeVars, serviceVars, bm25Vars, writerVars, fitVars,
                   s_call, s_query, s_top_k, s_lex_k, s_n, s_i, s_scores, s_vector,
                   s_invoked, s_in_rebuild, orchVars, historyVars, configVars, tokenVars>>

\* the exception of the worker thread, re-raised by the await and caught by
\* _bm25_search, lines 236-238: no results
Bm25SearchFailed ==
    /\ s_pc = "thread_raised"
    /\ LoopRuns
    /\ s_bm25' = <<>>
    /\ s_pc' = "bm25_done"
    /\ UNCHANGED <<storeVars, serviceVars, bm25Vars, writerVars, fitVars,
                   s_call, s_query, s_top_k, s_lex_k, s_n, s_i, s_scores, s_vector,
                   s_invoked, s_out, s_in_rebuild, orchVars, historyVars, configVars, tokenVars>>

\* _bm25_search returns to the caller that awaited it on its own
Bm25SearchReturn ==
    /\ s_pc = "bm25_done"
    /\ s_call = "_bm25_search"
    /\ s_pc' = "done"
    /\ s_out' = [s_out EXCEPT !.results = s_bm25]
    /\ UNCHANGED <<storeVars, serviceVars, bm25Vars, writerVars, fitVars,
                   s_call, s_query, s_top_k, s_lex_k, s_n, s_i, s_scores, s_bm25,
                   s_vector, s_invoked, s_in_rebuild, orchVars, historyVars, configVars, tokenVars>>

\* the documents of the store a query can hit: position and similarity, the
\* nearest first, no position twice
HitLists(n_results) ==
    LET limit == IF n_results < MaxHits THEN n_results ELSE MaxHits
    IN  {h \in SeqsUpTo((1..Len(collection)) \X Similarities, limit) :
            /\ \A i, j \in 1..Len(h) : i < j => h[i][1] # h[j][1]
            /\ \A i, j \in 1..Len(h) : i < j => h[i][2] >= h[j][2]}

\* _vector_search with VectorStore.search_similar, lines 240-257 and 133-180:
\* n_results = min(top_k, document_count); the collection's query raises for
\* an n_results that is not positive and the handler returns []
VectorResults(top_k) ==
    LET n_results == IF document_count > 0
                     THEN (IF top_k < document_count THEN top_k ELSE document_count)
                     ELSE top_k
    IN  IF n_results <= 0 \/ document_count = 0 THEN {<<>>}
        ELSE {[i \in 1..Len(h) |->
                 [content |-> collection[h[i][1]].content,
                  source |-> collection[h[i][1]].source,
                  vector_score |-> h[i][2]]] : h \in HitLists(n_results)}

\* the vector sub-search of search, gathered with _bm25_search
VectorSearch ==
    /\ s_pc = "bm25_done"
    /\ s_call = "search"
    /\ \E results \in VectorResults(s_top_k * 2) :
        s_vector' = SelectSeq(results, LAMBDA r : r.vector_score >= SimilarityThreshold)
    /\ s_pc' = "combine"
    /\ UNCHANGED <<storeVars, serviceVars, bm25Vars, writerVars, fitVars,
                   s_call, s_query, s_top_k, s_lex_k, s_n, s_i, s_scores, s_bm25,
                   s_invoked, s_out, s_in_rebuild, orchVars, historyVars, configVars, tokenVars>>

\* the embedding model or the collection's query raises: the handlers of
\* search_similar (vector_store.py, lines 178-180) and _vector_search (lines
\* 255-257) log it and return []
VectorSearchRaise ==
    /\ s_pc = "bm25_done"
    /\ s_call = "search"
    /\ s_vector' = <<>>
    /\ s_out' = [s_out EXCEPT !.vector_error = "Exception"]
    /\ s_pc' = "combine"
    /\ UNCHANGED <<storeVars, serviceVars, bm25Vars, writerVars, fitVars,
                   s_call, s_query, s_top_k, s_lex_k, s_n, s_i, s_scores, s_bm25,
                   s_invoked, s_in_rebuild, orchVars, historyVars, configVars, tokenVars>>

\* max(...) of a non-empty list of scores
MaxScore(results) ==
    CHOOSE m \in {results[i].bm25_score : i \in 1..Len(results)} :
        \A i \in 1..Len(results) : results[i].bm25_score <= m

\* the position of the entry of doc_scores for a content, 0 when there is none
EntryOf(entries, content) ==
    IF \E i \in 1..Len(entries) : entries[i].content = content
    THEN CHOOSE i \in 1..Len(entries) : entries[i].content = content
    ELSE 0

RECURSIVE AddBm25(_, _, _)
\* lines 280-288: the entry keyed by the content gets the normalised score
\* (in thousandths) and one more "bm25" in found_in
AddBm25(entries, results, max_bm25_score) ==
    IF results = <<>> THEN entries
    ELSE LET r == Head(results)
             normalized_bm25 == IF max_bm25_score > 0
                                THEN (r.bm25_score * 1000) \div max_bm25_score ELSE 0
             k == EntryOf(entries, r.content)
             old == IF k = 0
                    THEN [content |-> r.content, source |-> "", bm25_score |-> 0,
                          vector_score |-> 0, found_in |-> <<>>]
                    ELSE entries[k]
             new == [old EXCEPT !.bm25_score = normalized_bm25, !.source = r.source,
                                !.found_in = Append(old.found_in, "bm25")]
         IN  AddBm25(IF k = 0 THEN Append(entries, new) ELSE [entries EXCEPT ![k] = new],
                     Tail(results), max_bm25_score)

RECURSIVE AddVector(_, _)
\* lines 291-300; the source is taken only when no content was there yet
AddVector(entries, results) ==
    IF results = <<>> THEN entries
    ELSE LET r == Head(results)
             k == EntryOf(entries, r.content)
             old == IF k = 0
                    THEN [content |-> r.content, source |-> r.source, bm25_score |-> 0,
                          vector_score |-> 0, found_in |-> <<>>]
                    ELSE entries[k]
             new == [old EXCEPT !.vector_score = r.vector_score,
                                !.found_in = Append(old.found_in, "vector")]
         IN  AddVector(IF k = 0 THEN Append(entries, new) ELSE [entries EXCEPT ![k] = new],
                       Tail(results))

\* lines 305-311: the weighted sum, times 1.1 for more than one found_in
\* entry (the score is kept times 10)
HybridScore(entry) ==
    (entry.bm25_score * bm25_weight + entry.vector_score * vector_weight)
        * (IF Len(entry.found_in) > 1 THEN 11 ELSE 10)

\* _combine_results, lines 259-337
CombineResults(bm25_results, vector_results, top_k) ==
    LET max_bm25_score == IF bm25_results # <<>> THEN MaxScore(bm25_results) ELSE 1
        doc_scores == AddVector(AddBm25(<<>>, bm25_results, max_bm25_score), vector_results)
        kept == SelectSeq(doc_scores, LAMBDA e : e.content # EmptyText)
        hybrid_results == [i \in 1..Len(kept) |->
                             [content |-> kept[i].content, source |-> kept[i].source,
                              hybrid_score |-> HybridScore(kept[i]),
                              bm25_score |-> kept[i].bm25_score,
                              vector_score |-> kept[i].vector_score,
                              found_in |-> kept[i].found_in]]
    IN  SliceTo(SortByDesc(hybrid_results,
                           [i \in 1..Len(hybrid_results) |-> hybrid_results[i].hybrid_score]),
                top_k)

\* search after asyncio.gather, lines 197-200
Combine ==
    /\ s_pc = "combine"
    /\ s_out' = [s_out EXCEPT !.results = CombineResults(s_bm25, s_vector, s_top_k)]
    /\ s_pc' = "done"
    /\ UNCHANGED <<storeVars, serviceVars, bm25Vars, writerVars, fitVars,
                   s_call, s_query, s_top_k, s_lex_k, s_n, s_i, s_scores, s_bm25,
                   s_vector, s_invoked, s_in_rebuild, orchVars, historyVars, configVars, tokenVars>>

\* RAGOrchestrator.process_query after search returned, orchestrator.py lines
\* 129-159: the response for the documents search gave back (the answer text
\* of the language model is left out)
ProcessQueryResponse(retrieved_docs) ==
    IF retrieved_docs = <<>>
    THEN [success |-> TRUE, search_method |-> "no_results", retrieved_docs_count |-> 0]
    ELSE [success |-> TRUE, search_method |-> "hybrid",
          retrieved_docs_count |-> Len(retrieved_docs)]

\* the caller has the results
SearchReturned ==
    /\ s_pc = "done"
    /\ s_call' = "none"
    /\ s_pc' = "idle"
    /\ s_query' = <<>>
    /\ s_top_k' = 0
    /\ s_lex_k' = 0
    /\ s_n' = 0
    /\ s_i' = 0
    /\ s_scores' = <<>>
    /\ s_bm25' = <<>>
    /\ s_vector' = <<>>
    /\ s_invoked' = {}
    /\ s_out' = NoOutcome
    /\ s_in_rebuild' = FALSE
    /\ s_scored' = NoScored
    /\ UNCHANGED <<storeVars, serviceVars, bm25Vars, writerVars, fitVars, orchVars,
                   r_prev, configVars, tokenVars>>

(***************************************************************************)
(* RAGOrchestrator: initialize and rebuild_indexes                         *)
(***************************************************************************)
\* the chunks DocumentProcessor.process_documents yields, the same each time
ProcessedChunks == <<Doc(TextA, "s1"), Doc(TextB, "s2")>>

\* initialize, lines 50-78, entered with is_initialized false by call t: the
\* chunks go into the store (VectorStore.add_documents gives every chunk a new
\* id, so they are added to what is there), then build_indexes up to its
\* await; a failing add_documents ends the call with False
InitializeBody(t, vector_success) ==
    IF vector_success
    THEN /\ Len(collection) + Len(ProcessedChunks) <= MaxLoads * Len(ProcessedChunks)
         /\ collection' = collection \o ProcessedChunks
         /\ document_count' = Len(collection) + Len(ProcessedChunks)
         /\ StoreAndStartFit(t, ProcessedChunks)
         /\ o_pc' = [o_pc EXCEPT ![t] = "await_fit"]
         /\ UNCHANGED o_result
    ELSE /\ o_pc' = [o_pc EXCEPT ![t] = "done"]
         /\ o_result' = [o_result EXCEPT ![t] = "False"]
         /\ UNCHANGED <<storeVars, documents, document_metadata, bm25_aliased, fitVars>>

\* lifespan, app/dependencies.py lines 28-47: initialize() at startup
LifespanInitialize ==
    /\ ~serving
    /\ o_pc[1] = "idle"
    /\ \E vector_success \in BOOLEAN : InitializeBody(1, vector_success)
    /\ UNCHANGED <<bm25_index_built, bm25_documents, doc_lengths, term_frequencies,
                   document_frequencies, idf_cache, avg_doc_length, writerVars,
                   searchVars, is_initialized, serving, historyVars, configVars, tokenVars>>

\* rebuild_indexes() as rebuild_task and scheduled_rebuild_job call it (no
\* force_rebuild), lines 192-207: False at once when initialized, else the
\* flags are cleared and initialize runs
RebuildIndexes(t) ==
    /\ serving
    /\ o_pc[t] = "idle"
    /\ IF is_initialized
       THEN /\ o_pc' = [o_pc EXCEPT ![t] = "done"]
            /\ o_result' = [o_result EXCEPT ![t] = "False"]
            /\ UNCHANGED <<storeVars, documents, document_metadata, bm25_aliased, fitVars>>
       ELSE \E vector_success \in BOOLEAN : InitializeBody(t, vector_success)
    /\ UNCHANGED <<bm25_index_built, bm25_documents, doc_lengths, term_frequencies,
                   document_frequencies, idf_cache, avg_doc_length, writerVars,
                   searchVars, is_initialized, serving, historyVars, configVars, tokenVars>>

\* rebuild_indexes(force_rebuild=True), lines 192-207: the flags are cleared
\* and initialize runs, whether or not the system is initialized
RebuildIndexesForced(t) ==
    /\ serving
    /\ o_pc[t] = "idle"
    /\ is_initialized' = FALSE
    /\ \E vector_success \in BOOLEAN : InitializeBody(t, vector_success)
    /\ UNCHANGED <<bm25_index_built, bm25_documents, doc_lengths, term_frequencies,
                   document_frequencies, idf_cache, avg_doc_length, writerVars,
                   searchVars, serving, historyVars, configVars, tokenVars>>

ForcedRebuildRequest == \E t \in Threads : RebuildIndexesForced(t)

\* a rebuild request arrives: the admin endpoint's background task or the
\* scheduler's job
RebuildRequest == \E t \in Threads : RebuildIndexes(t)

\* the worker threads of the calls in flight
FitResetAny ==
    \E t \in Threads :
        FitReset(t) /\ UNCHANGED <<storeVars, serviceVars, writerVars, clientVars>>

FitDocumentAny ==
    \E t \in Threads :
        FitDocument(t) /\ UNCHANGED <<storeVars, serviceVars, writerVars, clientVars>>

FitAverageAny ==
    \E t \in Threads :
        FitAverage(t) /\ UNCHANGED <<storeVars, serviceVars, writerVars, clientVars>>

FitIdfAny ==
    \E t \in Threads :
        FitIdf(t) /\ UNCHANGED <<storeVars, serviceVars, writerVars, clientVars>>

\* initialize after build_indexes returned, lines 79-91
InitializeCompleted ==
    \E t \in Threads :
        /\ o_pc[t] = "await_fit"
        /\ f_pc[t] = "done"
        /\ bm25_index_built' = TRUE
        /\ is_initialized' = TRUE
        /\ o_pc' = [o_pc EXCEPT ![t] = "done"]
        /\ o_result' = [o_result EXCEPT ![t] = "True"]
        /\ ReleaseFit(t)
        /\ UNCHANGED <<storeVars, documents, document_metadata, bm25Vars, writerVars,
                       searchVars, serving, historyVars, configVars, tokenVars>>

\* build_indexes raised: the handler of initialize, lines 92-94
InitializeFailed ==
    \E t \in Threads :
        /\ o_pc[t] = "await_fit"
        /\ f_pc[t] = "raised"
        /\ o_pc' = [o_pc EXCEPT ![t] = "done"]
        /\ o_result' = [o_result EXCEPT ![t] = "False"]
        /\ ReleaseFit(t)
        /\ UNCHANGED <<storeVars, serviceVars, bm25Vars, writerVars, searchVars,
                       is_initialized, serving, historyVars, configVars, tokenVars>>

\* the call is over; after the startup call the application serves requests
OrchestratorReturned ==
    \E t \in Threads :
        /\ o_pc[t] = "done"
        /\ o_pc' = [o_pc EXCEPT ![t] = "idle"]
        /\ o_result' = [o_result EXCEPT ![t] = "none"]
        /\ serving' = TRUE
        /\ UNCHANGED <<storeVars, serviceVars, bm25Vars, writerVars, fitVars,
                       searchVars, is_initialized, historyVars, configVars, tokenVars>>

(***************************************************************************)
(* What the callers observe                                                *)
(***************************************************************************)
\* get_search_statistics, lines 342-348 (the weights and the store's own
\* statistics are left out)
GetSearchStatistics ==
    [bm25_index_built |-> bm25_index_built,
     total_documents |-> Len(documents),
     avg_doc_length |-> IF bm25_index_built THEN avg_doc_length ELSE <<0, 1>>]

\* get_index_statistics, lines 507-519
GetIndexStatistics ==
    [bm25_index_built |-> GetSearchStatistics.bm25_index_built,
     total_documents |-> GetSearchStatistics.total_documents,
     avg_doc_length |-> GetSearchStatistics.avg_doc_length,
     documents_in_memory |-> Len(documents),
     metadata_count |-> Len(document_metadata),
     vector_store_count |-> document_count]

\* two averages <<sum, count>> are the same number
AvgEq(a, b) == a[1] * b[2] = b[1] * a[2]

(***************************************************************************)
(* Specifications of the index lifecycle                                   *)
(***************************************************************************)
\* the figures of the index two rebuilds are compared by
IndexSnapshot ==
    [documents |-> documents,
     bm25_index_built |-> bm25_index_built,
     document_frequencies |-> document_frequencies,
     idf_cache |-> idf_cache,
     document_count |-> Len(bm25_documents),
     avg_doc_length |-> avg_doc_length]

\* no rebuild_index call has returned yet
NoRebuild ==
    [seen |-> FALSE, fetch_failed |-> FALSE,
     index |-> [documents |-> <<>>, bm25_index_built |-> FALSE,
                document_frequencies |-> EmptyMap, idf_cache |-> EmptyMap,
                document_count |-> 0, avg_doc_length |-> <<0, 1>>]]

\* rebuild_index has returned: the caller has the outcome, and the index it
\* left is remembered for the next call
RebuildIndexReturned ==
    /\ w_pc = "done"
    /\ w_op = "rebuild_index"
    /\ r_prev' = [seen |-> TRUE, fetch_failed |-> w_fetch_failed, index |-> IndexSnapshot]
    /\ w_pc' = "idle"
    /\ w_op' = "none"
    /\ w_source' = ""
    /\ w_new' = <<>>
    /\ w_result' = "none"
    /\ w_fetch_failed' = FALSE
    /\ w_pre' = NoIndexState
    /\ UNCHANGED <<storeVars, serviceVars, bm25Vars, fitVars, searchVars, orchVars,
                   s_scored, configVars, tokenVars>>

\* no search call in flight
SearchIdle ==
    /\ s_call = "none"
    /\ s_pc = "idle"
    /\ s_query = <<>>
    /\ s_top_k = 0
    /\ s_lex_k = 0
    /\ s_n = 0
    /\ s_i = 0
    /\ s_scores = <<>>
    /\ s_bm25 = <<>>
    /\ s_vector = <<>>
    /\ s_invoked = {}
    /\ s_out = NoOutcome
    /\ s_in_rebuild = FALSE

\* the service and the orchestrator as constructed, over a store that holds
\* the given documents
\* the weight pairs the environment may supply, multiples of 0.01: the
\* defaults, the lexical-only pair, a sum of 1.01, a sum of 1.02, a sum of 0.8
DefaultWeights == <<Bm25Weight, VectorWeight>>
WeightPairs == {DefaultWeights, <<1000, 0>>, <<300, 710>>, <<300, 720>>, <<500, 300>>}

\* Settings._validate_settings, lines 181-184: abs(weight_sum - 1.0) > 0.01
\* in double arithmetic. For weights that are multiples of 0.01 the double
\* nearest a sum of 0.99 or 1.01 lies 0.010000000000000009 from 1.0, above
\* the double 0.01, so the test is true from a difference of 0.01 on
ValidateSettingsRaises(w) ==
    LET weight_sum == w[1] + w[2]
        diff == IF weight_sum >= 1000 THEN weight_sum - 1000 ELSE 1000 - weight_sum
    IN  diff >= 10

\* the service holds the weights w of validated settings
ConstructedWith(w) ==
    /\ env_weights = w
    /\ service = "constructed"
    /\ bm25_weight = w[1]
    /\ vector_weight = w[2]

\* HybridSearchService.__init__, lines 116-126: get_settings() constructs
\* and validates a Settings object, whose exception ends the construction;
\* else the service copies the two weights
ConstructService ==
    /\ service = "absent"
    /\ IF ValidateSettingsRaises(env_weights)
       THEN /\ service' = "refused"
            /\ UNCHANGED <<bm25_weight, vector_weight>>
       ELSE /\ service' = "constructed"
            /\ bm25_weight' = env_weights[1]
            /\ vector_weight' = env_weights[2]
    /\ UNCHANGED <<storeVars, serviceVars, bm25Vars, writerVars, fitVars,
                   searchVars, orchVars, historyVars, env_weights, tokenVars>>

\* everything but the service's configuration, over a given store
InitState(store) ==
    /\ collection = store
    /\ document_count = Len(store)
    /\ documents = <<>>
    /\ document_metadata = <<>>
    /\ bm25_index_built = FALSE
    /\ bm25_documents = <<>>
    /\ bm25_aliased = FALSE
    /\ doc_lengths = <<>>
    /\ term_frequencies = <<>>
    /\ document_frequencies = EmptyMap
    /\ idf_cache = EmptyMap
    /\ avg_doc_length = <<0, 1>>
    /\ w_op = "none"
    /\ w_pc = "idle"
    /\ w_source = ""
    /\ w_new = <<>>
    /\ w_result = "none"
    /\ w_fetch_failed = FALSE
    /\ w_pre = NoIndexState
    /\ f_pc = [t \in Threads |-> "idle"]
    /\ f_i = [t \in Threads |-> 0]
    /\ f_docs = [t \in Threads |-> <<>>]
    /\ f_current = [t \in Threads |-> FALSE]
    /\ SearchIdle
    /\ is_initialized = FALSE
    /\ serving = FALSE
    /\ o_pc = [t \in Threads |-> "idle"]
    /\ o_result = [t \in Threads |-> "none"]
    /\ r_prev = NoRebuild
    /\ s_scored = NoScored

\* no text was handed to the tokenizer on its own
NoTokenizeCall == t_text = <<>> /\ t_done = FALSE /\ t_tokens = <<>>

\* the service as constructed from the default settings
InitOver(store) ==
    InitState(store) /\ ConstructedWith(DefaultWeights) /\ NoTokenizeCall

Init == InitOver(<<>>)

\* the store changes and the lifecycle calls, one call at a time
Next ==
    \/ AddDocuments
    \/ DeleteDocuments
    \/ BuildIndexes
    \/ RebuildIndex
    \/ RebuildIndexBySource
    \/ AddDocumentsToIndex
    \/ FitResetStep
    \/ FitDocumentStep
    \/ FitAverageStep
    \/ FitIdfStep
    \/ FitCompleted
    \/ CallReturned

Spec == Init /\ [][Next]_vars

\* the same, with a statistics computation that may raise
NextFault ==
    \/ Next
    \/ FitRaiseStep
    \/ FitFailed

SpecFault == Init /\ [][NextFault]_vars

(***************************************************************************)
(* Searches concurrent with the index lifecycle                            *)
(***************************************************************************)
\* the store the searches run over: one document of each source
InitConc == InitOver(<<Doc(TextA, "s1"), Doc(TextB, "s2")>>)

\* the lifecycle calls over that store, and _bm25_search calls issued at any
\* point of them
NextConc ==
    \/ BuildIndexes
    \/ RebuildIndex
    \/ RebuildIndexBySource
    \/ AddDocumentsToIndex
    \/ FitResetStep
    \/ FitDocumentStep
    \/ FitAverageStep
    \/ FitIdfStep
    \/ FitCompleted
    \/ CallReturned
    \/ Bm25SearchCall
    \/ Bm25SearchLen
    \/ Bm25SearchDoc
    \/ Bm25SearchSort
    \/ Bm25SearchConvert
    \/ Bm25SearchFailed
    \/ Bm25SearchReturn
    \/ SearchReturned

SpecConc == InitConc /\ [][NextConc]_vars

(***************************************************************************)
(* The orchestrator's rebuild requests                                     *)
(***************************************************************************)
NextOrch ==
    \/ LifespanInitialize
    \/ RebuildRequest
    \/ FitResetAny
    \/ FitDocumentAny
    \/ FitAverageAny
    \/ FitIdfAny
    \/ InitializeCompleted
    \/ InitializeFailed
    \/ OrchestratorReturned

SpecOrch == Init /\ [][NextOrch]_vars

\* the same, with forced rebuilds
NextForce ==
    \/ NextOrch
    \/ ForcedRebuildRequest

SpecForce == Init /\ [][NextForce]_vars

(***************************************************************************)
(* rebuild_index called again and again over an unchanged store            *)
(***************************************************************************)
InitTwice == \E store \in SeqsUpTo(DocKinds, MaxStore) : InitOver(store)

NextTwice ==
    \/ RebuildIndex
    \/ FitResetStep
    \/ FitDocumentStep
    \/ FitAverageStep
    \/ FitIdfStep
    \/ FitCompleted
    \/ RebuildIndexReturned

SpecTwice == InitTwice /\ [][NextTwice]_vars

(***************************************************************************)
(* The construction of the service from the settings of the environment   *)
(***************************************************************************)
InitConfig ==
    /\ InitState(<<>>)
    /\ env_weights \in WeightPairs
    /\ service = "absent"
    /\ bm25_weight = 0
    /\ vector_weight = 0
    /\ NoTokenizeCall

\* the construction, then the index lifecycle of a constructed service
NextConfig ==
    \/ ConstructService
    \/ (service = "constructed" /\ Next)

SpecConfig == InitConfig /\ [][NextConfig]_vars

(***************************************************************************)
(* Builds over document sets with documents that have no token            *)
(***************************************************************************)
\* a text whose one word is too short for a token
TextShort == <<"a">>

\* the documents a build may be handed: those of DocKinds and one without
\* tokens
BuildKinds == DocKinds \cup {Doc(TextShort, "s2")}

BuildIndexesAny == \E docs \in SeqsUpTo(BuildKinds, MaxDocs) : BuildIndexesOf(docs)

NextBuild ==
    \/ BuildIndexesAny
    \/ FitResetStep
    \/ FitDocumentStep
    \/ FitAverageStep
    \/ FitIdfStep
    \/ FitCompleted
    \/ CallReturned

SpecBuild == Init /\ [][NextBuild]_vars

\* the same builds, with lexical searches in flight
NextDivide ==
    \/ NextBuild
    \/ Bm25SearchCall
    \/ Bm25SearchLen
    \/ Bm25SearchDoc
    \/ Bm25SearchSort
    \/ Bm25SearchConvert
    \/ Bm25SearchFailed
    \/ Bm25SearchReturn
    \/ SearchReturned

SpecDivide == Init /\ [][NextDivide]_vars

(***************************************************************************)
(* BM25._tokenize on its own                                               *)
(***************************************************************************)
\* the longest text handed to the tokenizer
MaxLen == 4

\* the characters of those texts: Hangul syllables, a Latin letter, a digit,
\* a blank
TokenChars == {"ga", "na", "a", "1", " "}

InitTokens ==
    /\ InitState(<<>>)
    /\ ConstructedWith(DefaultWeights)
    /\ t_text \in SeqsUpTo(TokenChars, MaxLen)
    /\ t_done = FALSE
    /\ t_tokens = <<>>

\* self._tokenize(text), lines 60-77
TokenizeText ==
    /\ ~t_done
    /\ t_tokens' = Tokenize(t_text)
    /\ t_done' = TRUE
    /\ UNCHANGED <<storeVars, serviceVars, bm25Vars, writerVars, fitVars,
                   searchVars, orchVars, historyVars, configVars, t_text>>

NextTokens == TokenizeText

SpecTokens == InitTokens /\ [][NextTokens]_vars

(***************************************************************************)
(* Queries against a built index                                           *)
(***************************************************************************)
TextC == <<"da", "da">>
TextD == <<"b", "a">>
TextE == <<"1", "1">>
\* two texts with the one token "ab": the lone "1" is too short for a token
TextF == <<"a", "b", " ", "1">>
TextG == <<"a", "b">>

\* the corpora the queries run against
Corpora ==
    { <<Doc(TextA, "s1")>>,
      <<Doc(TextA, "s1"), Doc(TextB, "s2")>>,
      <<Doc(TextA, "s1"), Doc(TextB, "s2"), Doc(TextC, "s1"), Doc(TextD, "s2")>>,
      <<Doc(TextA, "s1"), Doc(TextA, "s2")>>,
      <<Doc(TextA, "s1"), Doc(TextA, "s2"), Doc(TextC, "s1"), Doc(TextD, "s2"),
        Doc(TextE, "s1")>>,
      <<Doc(TextF, "s1"), Doc(TextG, "s1"), Doc(TextG, "s2"), Doc(TextC, "s1"),
        Doc(TextD, "s2"), Doc(TextE, "s1"), Doc(TextC, "s2")>> }

RECURSIVE FitFrom(_, _, _)
\* the loop of BM25.fit from document i on
FitFrom(docs, i, st) ==
    IF i > Len(docs) THEN st
    ELSE LET tokens == Tokenize(docs[i])
         IN  FitFrom(docs, i + 1,
                     [st EXCEPT !.doc_lengths = Append(@, Len(tokens)),
                                !.term_frequencies = Append(@, Counter(tokens)),
                                !.document_frequencies = AddDocumentFrequencies(@, tokens)])

\* BM25.fit(docs) run from its first line to its last
FitResult(docs) ==
    LET st == FitFrom(docs, 1, [documents |-> docs, doc_lengths |-> <<>>,
                                term_frequencies |-> <<>>,
                                document_frequencies |-> EmptyMap,
                                idf_cache |-> EmptyMap, avg_doc_length |-> <<0, 1>>])
    IN  [st EXCEPT !.avg_doc_length = AverageLength(st.doc_lengths),
                   !.idf_cache = [term \in DOMAIN st.document_frequencies |->
                                     CalculateIdf(st.document_frequencies[term], Len(docs))]]

\* the service after build_indexes(corpus) ran to its end, over a store that
\* holds the corpus; or the service as constructed
BuiltOver(corpus) ==
        /\ collection = corpus
        /\ document_count = Len(corpus)
        /\ documents = ContentsOf(corpus)
        /\ document_metadata = MetadataOf(corpus)
        /\ bm25_index_built = TRUE
        /\ bm25_documents = FitResult(ContentsOf(corpus)).documents
        /\ doc_lengths = FitResult(ContentsOf(corpus)).doc_lengths
        /\ term_frequencies = FitResult(ContentsOf(corpus)).term_frequencies
        /\ document_frequencies = FitResult(ContentsOf(corpus)).document_frequencies
        /\ idf_cache = FitResult(ContentsOf(corpus)).idf_cache
        /\ avg_doc_length = FitResult(ContentsOf(corpus)).avg_doc_length
        /\ bm25_aliased = TRUE
        /\ w_op = "none"
        /\ w_pc = "idle"
        /\ w_source = ""
        /\ w_new = <<>>
        /\ w_result = "none"
        /\ w_fetch_failed = FALSE
        /\ w_pre = NoIndexState
        /\ f_pc = [t \in Threads |-> "idle"]
        /\ f_i = [t \in Threads |-> 0]
        /\ f_docs = [t \in Threads |-> <<>>]
        /\ f_current = [t \in Threads |-> FALSE]
        /\ SearchIdle
        /\ is_initialized = FALSE
        /\ serving = FALSE
        /\ o_pc = [t \in Threads |-> "idle"]
        /\ o_result = [t \in Threads |-> "none"]
        /\ r_prev = NoRebuild
        /\ s_scored = NoScored
        /\ NoTokenizeCall

InitQuery ==
    \/ Init
    \/ \E corpus \in Corpora :
        /\ BuiltOver(corpus)
        /\ \E w \in {v \in WeightPairs : ~ValidateSettingsRaises(v)} : ConstructedWith(w)

(***************************************************************************)
(* A source rebuild while a lexical search is in flight, over three        *)
(* documents                                                               *)
(***************************************************************************)
\* documents the in-memory index holds at most in this specification
MaxMemReorder == 3

InitReorder ==
    /\ BuiltOver(<<Doc(TextA, "s1"), Doc(TextB, "s2"), Doc(TextC, "s2")>>)
    /\ ConstructedWith(DefaultWeights)

RebuildIndexBySourceOfThree == RebuildIndexBySourceUpTo(MaxMemReorder)

NextReorder ==
    \/ RebuildIndexBySourceOfThree
    \/ AddDocumentsToIndex
    \/ FitResetStep
    \/ FitDocumentStep
    \/ FitAverageStep
    \/ FitIdfStep
    \/ FitCompleted
    \/ CallReturned
    \/ Bm25SearchCall
    \/ Bm25SearchLenScored
    \/ Bm25SearchDoc
    \/ Bm25SearchSort
    \/ Bm25SearchConvert
    \/ Bm25SearchFailed
    \/ Bm25SearchReturn
    \/ SearchReturned

SpecReorder == InitReorder /\ [][NextReorder]_vars

NextQuery ==
    \/ SearchCall
    \/ Bm25SearchLen
    \/ Bm25SearchDoc
    \/ Bm25SearchSort
    \/ Bm25SearchConvert
    \/ VectorSearch
    \/ Combine
    \/ SearchReturned

SpecQuery == InitQuery /\ [][NextQuery]_vars

\* the same, with sub-searches that may raise
NextQueryFault ==
    \/ NextQuery
    \/ Bm25SearchRaise
    \/ Bm25SearchFailed
    \/ VectorSearchRaise

SpecQueryFault == InitQuery /\ [][NextQueryFault]_vars

(***************************************************************************)
(* Claims about the index lifecycle                                        *)
(***************************************************************************)
\* no lifecycle call is between its start and its return
NoCallRunning == w_pc \in {"idle", "done"}

RebuildOps == {"rebuild_index", "rebuild_index_by_source"}

\* the in-memory documents tagged with a source, as the supplier's documents
MemoryDocsOf(source) ==
    LET tagged == SelectSeq(document_metadata, LAMBDA m : m.source = source)
    IN  [i \in 1..Len(tagged) |-> tagged[i].original_doc]

\* the documents a state of the index holds for the other sources
OtherDocsOf(metadata, source) ==
    LET others == SelectSeq(metadata, LAMBDA m : m.source # source)
    IN  [i \in 1..Len(others) |-> others[i].original_doc]

\* the store's documents of a source that can be indexed
StoreDocsOf(source) ==
    SelectSeq(collection, LAMBDA d : d.source = source /\ HasContent(d))

\* C1: whenever no lifecycle call is running, the statistics a query or
\* get_index_statistics observes are those of the current document list: one
\* length and one term-frequency entry per document, df/idf/avgdl computed
\* from exactly these documents, and the reported average is that average.
C1_StatsAreThoseOfDocuments ==
    NoCallRunning =>
        /\ Len(doc_lengths) = Len(documents)
        /\ Len(term_frequencies) = Len(documents)
        /\ AvgEq(GetIndexStatistics.avg_doc_length, StatsOf(documents).avg_doc_length)
        /\ bm25_index_built => BM25State = StatsOf(documents)

\* C2: a rebuild that failed (a fetch that raised, a statistics computation
\* that raised) on a Ready index leaves documents, document_metadata,
\* bm25_index_built and the statistics as they were, so that searches are
\* still answered from the previous index.
C2_FailedRebuildKeepsIndex ==
    (/\ w_pc = "done"
     /\ w_op \in RebuildOps
     /\ w_fetch_failed \/ w_result = "raised"
     /\ w_pre.ready
     /\ w_pre.documents # <<>>)
    => /\ documents = w_pre.documents
       /\ document_metadata = w_pre.document_metadata
       /\ bm25_index_built = w_pre.bm25_index_built
       /\ Ready

\* C5: a rebuild whose fetch or statistics computation failed ends with a
\* failure indication for its caller.
C5_FailedRebuildIsReported ==
    (/\ w_pc = "done"
     /\ w_op \in RebuildOps
     /\ w_fetch_failed)
    => w_result = "raised"

\* C6: a rebuild_index that ends as a success with an index installed has
\* indexed the whole corpus of the store, not the batches that could be
\* fetched.
C6_SuccessfulRebuildCoversCorpus ==
    (/\ w_pc = "done"
     /\ w_op = "rebuild_index"
     /\ w_result = "returned"
     /\ bm25_index_built)
    => documents = ContentsOf(collection)

\* C7: after rebuild_index_by_source(s) has returned, the in-memory
\* documents of s are the store's documents of s, the documents of the other
\* sources are the ones the call found, and the statistics are those of the
\* whole resulting list.
C7_SourceRebuildReplacesSource ==
    (/\ w_pc = "done"
     /\ w_op = "rebuild_index_by_source"
     /\ w_result = "returned"
     /\ ~w_fetch_failed)
    => /\ MemoryDocsOf(w_source) = StoreDocsOf(w_source)
       /\ OtherDocsOf(document_metadata, w_source)
              = OtherDocsOf(w_pre.document_metadata, w_source)
       /\ BM25State = StatsOf(documents)

\* C8: after rebuild_index_by_source(s) has returned, get_index_statistics
\* reports the count and the average length of the store's s documents
\* together with the documents of all other sources.
C8_SourceRebuildReportsWholeCorpus ==
    (/\ w_pc = "done"
     /\ w_op = "rebuild_index_by_source"
     /\ w_result = "returned"
     /\ ~w_fetch_failed)
    => LET expected == OtherDocsOf(w_pre.document_metadata, w_source)
                           \o StoreDocsOf(w_source)
       IN  /\ GetIndexStatistics.total_documents = Len(expected)
           /\ AvgEq(GetIndexStatistics.avg_doc_length,
                    StatsOf(ContentsOf(expected)).avg_doc_length)

(***************************************************************************)
(* Claims about concurrent searches and rebuild requests                   *)
(***************************************************************************)
\* the complete document lists an index can be built over
Snapshots == SeqsUpTo({TextA, TextB}, MaxMem)

\* BM25.search has left its scoring loop, by its end or by an exception,
\* while a rebuild awaits BM25.fit in its worker thread
ScoringOverInRebuild ==
    /\ s_pc \in {"convert", "thread_raised"}
    /\ w_op \in RebuildOps
    /\ w_pc = "await_fit"

\* C3: a BM25 search that runs concurrently with BM25.fit computes its scores
\* against one fully built statistics snapshot: the scoring raises nothing and
\* the scores are those the query gets over the complete statistics of some
\* document list, never over a mixture of lists and partly filled statistics
C3_SearchReadsOneSnapshot ==
    (ScoringOverInRebuild /\ s_out.lexical)
    => /\ s_out.error = "none"
       /\ \E D \in Snapshots :
            s_scores = RankedScores(Tokenize(s_query), StatsOf(D), s_lex_k)

\* C4: a search issued while rebuild_index of a Ready index with documents
\* awaits its fit is answered by the lexical path: it finds the index built
\* and its document list non-empty
C4_SearchInRebuildIsLexical ==
    (s_call # "none" /\ s_in_rebuild) => s_out.lexical

\* the rebuild requests that are between their start and their end
RebuildsInFlight == {t \in Threads : o_pc[t] = "await_fit"}

\* C9: at most one rebuild is in flight at any time
C9_OneRebuildInFlight == Cardinality(RebuildsInFlight) <= 1

\* C10: for every top_k <= 0 and any query, search returns an empty list and
\* invokes neither the BM25 sub-search nor the vector sub-search
C10_NonPositiveTopKDoesNothing ==
    (s_call = "search" /\ s_pc = "done" /\ s_top_k <= 0)
    => /\ s_out.results = <<>>
       /\ s_invoked = {}

(***************************************************************************)
(* Claims about search and fusion                                          *)
(***************************************************************************)
\* the search call that starts in this step has an empty or whitespace-only
\* query
BlankSearchStarts ==
    /\ s_pc = "idle"
    /\ s_call' = "search"
    /\ s_query' \in BlankQueries

\* C11: for an empty or whitespace-only query, search returns an empty list
\* immediately (the step of the call is the step of its return), neither the
\* BM25 sub-search nor the vector store is invoked, and the store, the
\* service's lists and the BM25 statistics do not change
C11_BlankQueryReturnsAtOnce ==
    [][BlankSearchStarts =>
          /\ s_pc' = "done"
          /\ s_out'.results = <<>>
          /\ s_invoked' = {}
          /\ UNCHANGED <<storeVars, serviceVars, bm25Vars>>]_vars

\* a whitespace-only query was answered on a built index with documents
C11_Witness ==
    /\ s_call = "search"
    /\ s_pc = "done"
    /\ s_query = QueryBlank
    /\ s_top_k >= 1
    /\ LexicalPathOpen

\* search has returned for a query that is not blank and a top_k >= 1
SearchDone ==
    /\ s_call = "search"
    /\ s_pc = "done"
    /\ s_top_k >= 1
    /\ s_query \notin BlankQueries

\* C12: when exactly one sub-search fails and the other yields n <= top_k
\* results, search returns exactly those n documents, each with a zero score
\* of the failed path and found_in holding only the marker of the surviving
\* path
C12_SurvivingPathIsReturned ==
    /\ (/\ SearchDone
        /\ s_out.vector_error # "none"
        /\ s_out.error = "none"
        /\ Len(s_bm25) <= s_top_k)
       => /\ Len(s_out.results) = Len(s_bm25)
          /\ \A i \in 1..Len(s_bm25) :
                /\ i <= Len(s_out.results)
                /\ s_out.results[i].content = s_bm25[i].content
                /\ s_out.results[i].source = s_bm25[i].source
                /\ s_out.results[i].vector_score = 0
                /\ s_out.results[i].found_in = <<"bm25">>
    /\ (/\ SearchDone
        /\ s_out.error # "none"
        /\ s_out.vector_error = "none"
        /\ Len(s_vector) <= s_top_k)
       => /\ Len(s_out.results) = Len(s_vector)
          /\ \A i \in 1..Len(s_vector) :
                /\ i <= Len(s_out.results)
                /\ s_out.results[i].content = s_vector[i].content
                /\ s_out.results[i].source = s_vector[i].source
                /\ s_out.results[i].bm25_score = 0
                /\ s_out.results[i].found_in = <<"vector">>

\* C13: when both sub-searches fail, search returns an empty list without
\* raising, and the failure is surfaced to the caller: the response the
\* caller gets for the search is not that of a successful search
C13_TotalFailureIsSurfaced ==
    (/\ SearchDone
     /\ s_out.error # "none"
     /\ s_out.vector_error # "none")
    => /\ s_out.results = <<>>
       /\ ~ProcessQueryResponse(s_out.results).success

\* the documents the two sub-searches delivered, by identity (two documents
\* of the model with the same content differ in their source)
Delivered ==
    {<<s_bm25[i].content, s_bm25[i].source>> : i \in 1..Len(s_bm25)}
        \cup {<<s_vector[i].content, s_vector[i].source>> : i \in 1..Len(s_vector)}

\* C14: fusion joins by document identity, not by content text: every
\* document a sub-search delivered has a fused result of its own, with its own
\* source, also when another delivered document has the same content (top_k
\* large enough to cut nothing)
C14_FusionJoinsByIdentity ==
    (SearchDone /\ Len(s_bm25) + Len(s_vector) <= s_top_k)
    => \A d \in Delivered :
          \E i \in 1..Len(s_out.results) :
              /\ s_out.results[i].content = d[1]
              /\ s_out.results[i].source = d[2]

InLexical(content) == \E j \in 1..Len(s_bm25) : s_bm25[j].content = content
InVector(content) == \E j \in 1..Len(s_vector) : s_vector[j].content = content

\* C15: the 1.1 multiplier is applied exactly to the results found in both
\* the lexical and the vector list, never to one found in one list only
\* (however often its content occurs there), and found_in is a duplicate-free
\* subset of the two markers
C15_BonusOnlyForBothLists ==
    SearchDone
    => \A i \in 1..Len(s_out.results) :
          LET e == s_out.results[i]
              base == e.bm25_score * bm25_weight + e.vector_score * vector_weight
          IN  /\ e.hybrid_score
                    = base * (IF InLexical(e.content) /\ InVector(e.content) THEN 11 ELSE 10)
              /\ \A a, b \in 1..Len(e.found_in) : a # b => e.found_in[a] # e.found_in[b]
              /\ \A a \in 1..Len(e.found_in) : e.found_in[a] \in {"bm25", "vector"}

\* the original rank of a fused result: its place among the lexical hits, or,
\* for a vector-only hit, its place among the vector hits after all of them
FirstIndex(l, content) == CHOOSE j \in 1..Len(l) : l[j].content = content /\
                              \A h \in 1..(j - 1) : l[h].content # content
OriginalRank(content) ==
    IF InLexical(content) THEN FirstIndex(s_bm25, content)
    ELSE Len(s_bm25) + FirstIndex(s_vector, content)

\* C16: for top_k >= 1 the fused list has at most top_k entries, is ordered by
\* hybrid_score descending, and entries of equal hybrid_score are in the order
\* of their original rank
C16_FusedListIsOrdered ==
    SearchDone
    => /\ Len(s_out.results) <= s_top_k
       /\ \A i, j \in 1..Len(s_out.results) :
             i < j =>
                /\ s_out.results[i].hybrid_score >= s_out.results[j].hybrid_score
                /\ s_out.results[i].hybrid_score = s_out.results[j].hybrid_score
                   => OriginalRank(s_out.results[i].content)
                        < OriginalRank(s_out.results[j].content)

\* a fused list with two entries of equal hybrid score was returned
C16_Witness ==
    /\ SearchDone
    /\ Len(s_out.results) >= 2
    /\ s_out.results[1].hybrid_score = s_out.results[2].hybrid_score
    /\ s_out.results[1].content # s_out.results[2].content

(***************************************************************************)
(* Claims about builds and scores                                          *)
(***************************************************************************)
\* C17: rebuild_index called twice in succession over an unchanged store
\* leaves the same index both times: the same document list in the same
\* order, the same document frequencies, IDF values, document count and
\* average document length
C17_RebuildIsIdempotent ==
    (w_pc = "done" /\ w_op = "rebuild_index" /\ r_prev.seen)
    => IndexSnapshot = r_prev.index

\* C18: build_indexes with an empty document set, also on an index that is
\* Ready with documents, leaves an index that reports zero documents and
\* gives empty scores for any query (BM25 holds no document), with none of
\* the statistics of the earlier document set
C18_EmptyBuildEmptiesIndex ==
    (w_pc = "done" /\ w_op = "build_indexes" /\ w_new = <<>>)
    => /\ GetIndexStatistics.total_documents = 0
       /\ bm25_documents = <<>>
       /\ doc_lengths = <<>>
       /\ term_frequencies = <<>>
       /\ document_frequencies = EmptyMap
       /\ AvgEq(avg_doc_length, <<0, 1>>)

\* the tokens of the query in flight
QueryTokens == {Tokenize(s_query)[i] : i \in 1..Len(Tokenize(s_query))}

\* the tokens of the indexed document d (counted from 1)
DocTokens(d) == {Tokenize(documents[d])[i] : i \in 1..Len(Tokenize(documents[d]))}

\* the lexical sub-search of a search call is over, without an exception
LexicalDone ==
    /\ s_call = "search"
    /\ s_pc \in {"combine", "done"}
    /\ s_top_k >= 1
    /\ s_out.lexical
    /\ s_out.error = "none"

\* C19: in a two-document corpus where the query's tokens occur in one
\* document and in no token of the other, the lexical sub-search gives that
\* document a nonzero score and ranks it above the other, so it is among the
\* lexical results of search
C19_MatchingDocumentIsRanked ==
    (LexicalDone /\ Len(documents) = 2 /\ QueryTokens # {})
    => \A d \in 1..2 :
          (QueryTokens \subseteq DocTokens(d) /\ QueryTokens \cap DocTokens(3 - d) = {})
          => /\ s_bm25 # <<>>
             /\ s_bm25[1].doc_index = d - 1
             /\ s_bm25[1].bm25_score > 0

\* no token of the query is in any indexed document
NoOverlap ==
    /\ QueryTokens # {}
    /\ \A i \in 1..Len(term_frequencies) : QueryTokens \cap DOMAIN term_frequencies[i] = {}

\* BM25.search has returned its list to _bm25_search
ScoresReturned == s_pc = "convert"

\* the length of s[:k] for a list of n entries
CutLength(n, k) ==
    IF k >= 0 THEN (IF k < n THEN k ELSE n) ELSE (IF n + k > 0 THEN n + k ELSE 0)

\* C20, as claimed: for a query whose tokens overlap no indexed document,
\* BM25.search (called with a positive top_k) returns all the documents of
\* the index, each with score 0
C20_NoOverlapReturnsAllDocuments ==
    (ScoresReturned /\ NoOverlap /\ s_top_k >= 1)
    => /\ Len(s_scores) = Len(bm25_documents)
       /\ \A i \in 1..Len(s_scores) : s_scores[i].score = 0
       /\ {s_scores[i].doc_idx : i \in 1..Len(s_scores)} = 0..(Len(bm25_documents) - 1)

\* C20, amended: for such a query BM25.search returns the documents in index
\* order, each with score 0, cut to top_k entries (scores[:top_k]): all of
\* them only when top_k is at least the number of documents
C20_NoOverlapReturnsZeroScoresCut ==
    (ScoresReturned /\ NoOverlap)
    => /\ Len(s_scores) = CutLength(Len(bm25_documents), s_lex_k)
       /\ \A i \in 1..Len(s_scores) :
             /\ s_scores[i].score = 0
             /\ s_scores[i].doc_idx = i - 1

\* a query without overlap got a list of zero scores that was cut
C20_Witness ==
    /\ ScoresReturned
    /\ NoOverlap
    /\ Len(s_scores) >= 2
    /\ Len(s_scores) < Len(bm25_documents)

(***************************************************************************)
(* Claims about ranking, weights and the tokenizer                         *)
(***************************************************************************)
\* C21: BM25.search returns its (document_index, raw_score) pairs ordered by
\* raw score descending, and documents with equal raw score appear in
\* ascending original document index order
C21_ScoresDescendingTiesByIndex ==
    ScoresReturned
    => \A i, j \in 1..Len(s_scores) :
          i < j => \/ s_scores[i].score > s_scores[j].score
                   \/ /\ s_scores[i].score = s_scores[j].score
                      /\ s_scores[i].doc_idx < s_scores[j].doc_idx

\* BM25.search returned a list with a strict descent and with a tie
C21_Witness ==
    /\ ScoresReturned
    /\ \E i, j \in 1..Len(s_scores) : i < j /\ s_scores[i].score > s_scores[j].score
    /\ \E i, j \in 1..Len(s_scores) : i < j /\ s_scores[i].score = s_scores[j].score

\* the service runs with bm25_weight = 1.0 and vector_weight = 0.0
LexicalOnlyWeights == bm25_weight = 1000 /\ vector_weight = 0

\* C22: with bm25_weight = 1 and vector_weight = 0, the fused results that do
\* not appear in the vector results are in their pure lexical (BM25) order
\* and carry no consensus bonus: only a document that is also among the
\* vector results can be moved
C22_LexicalOnlyWeightsKeepLexicalOrder ==
    (SearchDone /\ LexicalOnlyWeights)
    => /\ \A i, j \in 1..Len(s_out.results) :
             (/\ i < j
              /\ ~InVector(s_out.results[i].content)
              /\ ~InVector(s_out.results[j].content))
             => /\ InLexical(s_out.results[i].content)
                /\ InLexical(s_out.results[j].content)
                /\ FirstIndex(s_bm25, s_out.results[i].content)
                      < FirstIndex(s_bm25, s_out.results[j].content)
       /\ \A i \in 1..Len(s_out.results) :
             ~InVector(s_out.results[i].content)
             => s_out.results[i].hybrid_score = s_out.results[i].bm25_score * 1000 * 10

\* BM25_WEIGHT + VECTOR_WEIGHT differs from 1.0 by more than 0.01
ExceedsTolerance(w) == w[1] + w[2] > 1010 \/ w[1] + w[2] < 990

\* C23: settings whose weights sum differs from 1.0 by more than 0.01 raise
\* at construction, so no HybridSearchService exists with such weights and
\* the weights are never normalized; weights within the tolerance are
\* accepted unchanged
C23_WeightsValidatedAtConstruction ==
    /\ service = "constructed"
       => /\ ~ExceedsTolerance(env_weights)
          /\ bm25_weight = env_weights[1]
          /\ vector_weight = env_weights[2]
    /\ (service # "absent" /\ ExceedsTolerance(env_weights)) => service = "refused"
    /\ (service # "absent" /\ ~ExceedsTolerance(env_weights)) => service = "constructed"

\* every character of the token is a Hangul syllable
AllHangul(token) == \A i \in 1..Len(token) : token[i] \in Hangul

RECURSIVE TokensWithBigrams(_)
\* the tokens of at least 2 characters among the words, each token that is
\* all Hangul and at least 3 characters long followed by its overlapping
\* 2-character substrings from left to right
TokensWithBigrams(words) ==
    IF words = <<>> THEN <<>>
    ELSE LET token == Head(words)
             extra == IF AllHangul(token) /\ Len(token) >= 3
                      THEN [i \in 1..(Len(token) - 1) |-> <<token[i], token[i + 1]>>]
                      ELSE <<>>
         IN  (IF Len(token) >= 2 THEN <<token>> \o extra ELSE <<>>)
                \o TokensWithBigrams(Tail(words))

\* C24: the tokenizer emits the overlapping 2-character substrings of a token
\* exactly when the token is all Hangul and has at least 3 characters: its
\* n - 1 bigrams follow it in left-to-right order, and a token with a
\* non-Hangul character or of length 2 gets no extra tokens
C24_BigramsOnlyForHangulTokens ==
    t_done => t_tokens = TokensWithBigrams(SplitText(CleanText(t_text)))

\* the sum of the tokenized lengths of the documents of a set
RECURSIVE TokenizedLengths(_)
TokenizedLengths(docs) ==
    IF docs = <<>> THEN 0
    ELSE Len(Tokenize(Head(docs).content)) + TokenizedLengths(Tail(docs))

\* build_indexes(D) has returned without an exception
BuildReturned == w_pc = "done" /\ w_op = "build_indexes" /\ w_result = "returned"

\* C25: after a build over a document set D, avg_doc_length * |D| equals the
\* sum of the tokenized lengths of the documents of D, with |D| the document
\* count the index reports (avg_doc_length is the fraction <<sum, count>>)
C25_AverageTimesCountIsTotalLength ==
    BuildReturned
    => GetIndexStatistics.avg_doc_length[1] * GetIndexStatistics.total_documents
          = TokenizedLengths(w_new) * GetIndexStatistics.avg_doc_length[2]

(***************************************************************************)
(* Claims about the orchestrator and concurrent readers                    *)
(***************************************************************************)
\* in this step rebuild_task of an admin request calls rebuild_indexes on an
\* initialized system
RebuildTaskRunsWhenInitialized(t) ==
    /\ serving
    /\ is_initialized
    /\ o_pc[t] = "idle"
    /\ o_pc'[t] # "idle"

\* C26: after an admin rebuild request on an initialized system was answered
\* "started", rebuild_task performs the rebuild: rebuild_indexes re-runs the
\* initialization (the chunks are loaded and build_indexes is started)
\* rather than ending without touching the index
C26_RebuildTaskRebuilds ==
    [][\A t \in Threads :
          RebuildTaskRunsWhenInitialized(t)
          => /\ o_pc'[t] = "await_fit"
             /\ f_pc'[t] = "start"]_vars

\* _bm25_search has built its result list from the scores of a completed
\* scoring pass, or has caught the IndexError of its lookup
LexicalResultsBuilt ==
    /\ s_call # "none"
    /\ s_pc = "bm25_done"
    /\ s_out.lexical
    /\ s_out.error \in {"none", "IndexError"}
    /\ s_i = s_n
    /\ Len(s_scores) > 0

\* C27: every lexical result of _bm25_search carries the content and the
\* source of the document whose score it reports (the document that had its
\* index when the scoring pass ran), and the lookup never indexes past the end
\* of documents / document_metadata, also when rebuild_index_by_source
\* changes those lists between the scoring pass and the result construction
C27_ResultCarriesTheScoredDocument ==
    LexicalResultsBuilt
    => /\ s_out.error # "IndexError"
       /\ \A i \in 1..Len(s_bm25) :
             /\ s_bm25[i].doc_index + 1 <= Len(s_scored.documents)
             /\ s_bm25[i].content = s_scored.documents[s_bm25[i].doc_index + 1]
             /\ s_bm25[i].source = s_scored.sources[s_bm25[i].doc_index + 1]

\* C28: in every reachable state of the service, after any sequence of
\* build_indexes, rebuild_index and rebuild_index_by_source, documents and
\* document_metadata have the same length, documents[i] and
\* document_metadata[i] describe the same document, and no indexed document
\* has empty content
C28_DocumentsAndMetadataAgree ==
    /\ Len(documents) = Len(document_metadata)
    /\ \A i \in 1..Len(documents) :
          /\ i <= Len(document_metadata)
          /\ document_metadata[i].original_doc.content = documents[i]
          /\ document_metadata[i].source = document_metadata[i].original_doc.source
          /\ documents[i] # EmptyText

\* a source rebuild that was handed a document with empty content and one
\* with content has returned, and the index holds documents
C28_Witness ==
    /\ w_pc = "done"
    /\ w_op = "rebuild_index_by_source"
    /\ w_result = "returned"
    /\ \E i \in 1..Len(w_new) : w_new[i].content = EmptyText
    /\ \E i \in 1..Len(w_new) : w_new[i].content # EmptyText
    /\ documents # <<>>

\* no element occurs twice in the sequence
NoRepeats(seq) == \A i, j \in 1..Len(seq) : i # j => seq[i] # seq[j]

\* C29: a forced orchestrator rebuild or a repeated initialization over an
\* unchanged source corpus leaves the store's document count unchanged: the
\* processed chunks are not inserted a second time, so no passage occurs more
\* than once in the vector store or in the rebuilt index
C29_ChunksAreLoadedOnce ==
    /\ document_count <= Len(ProcessedChunks)
    /\ NoRepeats(collection)
    /\ NoRepeats(documents)

\* C30: BM25.search never divides by zero: in every index state reachable
\* through fit, doc_length / avg_doc_length is evaluated only when
\* avg_doc_length > 0
C30_SearchNeverDividesByZero ==
    s_call # "none" => s_out.error # "ZeroDivisionError"

====
